---- MODULE Spec2Model ----
(***************************************************************************)
(* Job orchestration and progress streaming of app.py: the /start handler  *)
(* behind single_concurrent, the worker thread with its progress hook,     *)
(* job_update and the per-job queue, the /progress event stream, /file,    *)
(* the fallback timer and the delayed cleanup thread.                      *)
(*                                                                         *)
(* Every thread of the program is a process of the model; one action is    *)
(* one step a thread takes between two points where another thread can     *)
(* run.  Job ids (uuid4) are modelled by the index of the request that     *)
(* creates them.  Fields that no handler reads back (created_at, type,     *)
(* eta, speed) are left out of the job record.                             *)
(***************************************************************************)
EXTENDS Integers, Sequences, FiniteSets, TLC

\* ---- bounds of the model
NumIps == 2
MaxReq == 2
MaxStreams == 2
\* hook calls the extractor makes, over all jobs
MaxHooks == 2
MaxBytes == 1
\* queue.Queue(maxsize=100), scaled down so that a full queue is reached
MaxSize == 2

\* The traffic a run carries: MaxReq submissions and no subscriber, or one
\* submission and MaxStreams subscribers
Workloads == {[reqs |-> MaxReq, streams |-> 0], [reqs |-> 1, streams |-> MaxStreams]}

Ips == 1..NumIps
JobIds == 1..MaxReq
StreamIds == 1..MaxStreams
None == "None"
Urls == {"", "u"}
FileNames == {"cookies.txt", "media"}
Terminal == {"done", "error"}
NonTerminal == {"queued", "downloading", "postprocessing"}
HookStatuses == {"downloading", "finished", "error"}

VARIABLES
  JOBS,             \* job_id -> record, the module-level dict
  PROGRESS_QUEUES,  \* job_id -> queue contents, oldest first
  ACTIVE_BY_IP,     \* set of keys
  COOKIES_TEXT,     \* whether the environment variable is set
  req,              \* the /start requests: position in wrapper/start
  timers,           \* ip -> number of armed fallback timers
  wk,               \* job_id -> the worker thread's position and locals
  disk,             \* job_id -> the workdir on storage
  cleanup,          \* job_id -> state of the delayed_cleanup thread
  stream,           \* the /progress requests and their generators
  ncalls,           \* hook calls made so far
  load,             \* the workload of this run
  lastEnq,          \* job_id -> status of the last event put on its queue
  ver,              \* job_id -> number of job_update calls made on the job
  qver,             \* job_id -> for each queued event, the call that put it
  lastDl,           \* job_id -> the last 'downloading' callback of the running
                    \* extract_info call and the percent it recorded
  warned            \* job ids whose cleanup failure was logged (line 67)

vars == <<JOBS, PROGRESS_QUEUES, ACTIVE_BY_IP, COOKIES_TEXT, req, timers, wk,
          disk, cleanup, stream, ncalls, load, lastEnq, ver, qver, lastDl, warned>>

\* ---- helpers

\* round((downloaded / total) * 100, 2), in hundredths of a percent
Percent(downloaded, total) ==
  IF total = 0 THEN 0
  ELSE (2 * downloaded * 10000 + total) \div (2 * total)

\* safe_remove(workdir): rmtree, or the failure that is only logged
safe_remove(job_id, fails) ==
  IF disk[job_id].exists /\ ~fails
  THEN [disk EXCEPT ![job_id] = [exists |-> FALSE, files |-> {}]]
  ELSE disk

\* safe_remove, lines 66-67: the warning logged when the removal fails
Warned(job_id, fails) ==
  IF disk[job_id].exists /\ fails THEN warned \cup {job_id} ELSE warned

\* job.update(fields)
Merged(job_id, fields) == fields @@ JOBS[job_id]

\* q.put_nowait(job.copy()) with queue.Full swallowed
PutNowait(q, item) == IF Len(q) >= MaxSize THEN q ELSE Append(q, item)

job_update(job_id, fields) ==
  IF job_id \notin DOMAIN JOBS
  THEN UNCHANGED <<JOBS, PROGRESS_QUEUES, lastEnq, ver, qver>>
  ELSE /\ JOBS' = [JOBS EXCEPT ![job_id] = Merged(job_id, fields)]
       /\ IF job_id \in DOMAIN PROGRESS_QUEUES
          THEN /\ PROGRESS_QUEUES' =
                    [PROGRESS_QUEUES EXCEPT
                       ![job_id] = PutNowait(@, Merged(job_id, fields))]
               /\ lastEnq' =
                    IF Len(PROGRESS_QUEUES[job_id]) >= MaxSize THEN lastEnq
                    ELSE [lastEnq EXCEPT ![job_id] = Merged(job_id, fields).status]
               /\ qver' = [qver EXCEPT ![job_id] = PutNowait(@, ver[job_id] + 1)]
          ELSE UNCHANGED <<PROGRESS_QUEUES, lastEnq, qver>>
       /\ ver' = [ver EXCEPT ![job_id] = @ + 1]

\* lastDl of a job whose extract_info call is not running
NoCallback == [downloaded |-> 0, total |-> 0, percent |-> 0]

\* ---- Init: the state after the module is imported
Init ==
  /\ JOBS = <<>>
  /\ PROGRESS_QUEUES = <<>>
  /\ ACTIVE_BY_IP = {}
  /\ COOKIES_TEXT \in BOOLEAN
  /\ req = [r \in JobIds |-> [pc |-> "new", ip |-> 0, url |-> "", code |-> 0]]
  /\ timers = [i \in Ips |-> 0]
  /\ wk = [j \in JobIds |-> [pc |-> "none", ip_key |-> 0]]
  /\ disk = [j \in JobIds |-> [exists |-> FALSE, files |-> {}]]
  /\ cleanup = [j \in JobIds |-> "none"]
  /\ stream = [s \in StreamIds |-> [pc |-> "idle", job |-> 0, first |-> None, last |-> 0]]
  /\ ncalls = 0
  /\ load \in Workloads
  /\ lastEnq = [j \in JobIds |-> None]
  /\ ver = [j \in JobIds |-> 0]
  /\ qver = [j \in JobIds |-> <<>>]
  /\ lastDl = [j \in JobIds |-> NoCallback]
  /\ warned = {}

\* ---- POST /start behind single_concurrent

\* the wrapper as it would be with the 429 return inside the try block, so
\* that the finally clause arms the timer for a rejected request too
wrapper_check_timer_on_429(r, ip, url) ==
  /\ UNCHANGED <<lastDl, warned>>
  /\ req[r].pc = "new"
  /\ r <= load.reqs
  /\ r = 1 => ip = 1
  /\ \A r2 \in JobIds : r2 < r => req[r2].pc # "new"
  /\ IF ip \in ACTIVE_BY_IP
     THEN /\ req' = [req EXCEPT ![r] = [pc |-> "responded", ip |-> 0, url |-> "", code |-> 429]]
          /\ timers' = [timers EXCEPT ![ip] = @ + 1]
     ELSE /\ req' = [req EXCEPT ![r] = [pc |-> "checked", ip |-> ip, url |-> url, code |-> 0]]
          /\ UNCHANGED timers
  /\ UNCHANGED <<JOBS, PROGRESS_QUEUES, ACTIVE_BY_IP, COOKIES_TEXT, wk,
                 disk, cleanup, stream, ncalls, load, lastEnq, ver, qver>>

\* wrapper, lines 47-50: the membership test; 429 when the key is present
wrapper_check(r, ip, url) ==
  /\ UNCHANGED <<lastDl, warned>>
  /\ req[r].pc = "new"
  /\ r <= load.reqs
  /\ r = 1 => ip = 1   \* identities are interchangeable
  /\ \A r2 \in JobIds : r2 < r => req[r2].pc # "new"
  /\ IF ip \in ACTIVE_BY_IP
     THEN req' = [req EXCEPT ![r] = [pc |-> "responded", ip |-> 0, url |-> "", code |-> 429]]
     ELSE req' = [req EXCEPT ![r] = [pc |-> "checked", ip |-> ip, url |-> url, code |-> 0]]
  /\ UNCHANGED <<JOBS, PROGRESS_QUEUES, ACTIVE_BY_IP, COOKIES_TEXT, timers, wk,
                 disk, cleanup, stream, ncalls, load, lastEnq, ver, qver>>

\* wrapper, line 52
wrapper_add(r) ==
  /\ UNCHANGED <<lastDl, warned>>
  /\ req[r].pc = "checked"
  /\ ACTIVE_BY_IP' = ACTIVE_BY_IP \cup {req[r].ip}
  /\ req' = [req EXCEPT ![r].pc = "added"]
  /\ UNCHANGED <<JOBS, PROGRESS_QUEUES, COOKIES_TEXT, timers, wk,
                 disk, cleanup, stream, ncalls, load, lastEnq, ver, qver>>

NewJob(r) ==
  [status |-> "queued", progress |-> [percent |-> 0],
   filename |-> None, error |-> None, workdir |-> r, ip |-> req[r].ip]

\* start behind a wrapper whose finally clause arms no timer
start_without_timer(r) ==
  /\ UNCHANGED <<lastDl, warned>>
  /\ req[r].pc = "added"
  /\ IF req[r].url = ""
     THEN /\ req' = [req EXCEPT ![r] = [pc |-> "responded", ip |-> 0, url |-> "", code |-> 400]]
          /\ UNCHANGED <<JOBS, PROGRESS_QUEUES, wk, disk>>
     ELSE /\ disk' = [disk EXCEPT ![r] = [exists |-> TRUE, files |-> {}]]
          /\ JOBS' = (r :> NewJob(r)) @@ JOBS
          /\ PROGRESS_QUEUES' = (r :> <<>>) @@ PROGRESS_QUEUES
          /\ wk' = [wk EXCEPT ![r].pc = "spawned"]
          /\ req' = [req EXCEPT ![r] = [pc |-> "responded", ip |-> 0, url |-> "", code |-> 200]]
  /\ UNCHANGED <<timers, ACTIVE_BY_IP, COOKIES_TEXT, cleanup, stream, ncalls, load,
                 lastEnq, ver, qver>>

\* start, lines 115-196, and the wrapper's finally clause, lines 54-56:
\* 400 on an empty url, else the job, its queue, its workdir and its worker
\* thread; either way the fallback timer is armed as the handler returns
start(r) ==
  /\ UNCHANGED <<lastDl, warned>>
  /\ req[r].pc = "added"
  /\ IF req[r].url = ""
     THEN /\ req' = [req EXCEPT ![r] = [pc |-> "responded", ip |-> 0, url |-> "", code |-> 400]]
          /\ UNCHANGED <<JOBS, PROGRESS_QUEUES, wk, disk>>
     ELSE /\ disk' = [disk EXCEPT ![r] = [exists |-> TRUE, files |-> {}]]
          /\ JOBS' = (r :> NewJob(r)) @@ JOBS
          /\ PROGRESS_QUEUES' = (r :> <<>>) @@ PROGRESS_QUEUES
          /\ wk' = [wk EXCEPT ![r].pc = "spawned"]
          /\ req' = [req EXCEPT ![r] = [pc |-> "responded", ip |-> 0, url |-> "", code |-> 200]]
  /\ timers' = [timers EXCEPT ![req[r].ip] = @ + 1]
  /\ UNCHANGED <<ACTIVE_BY_IP, COOKIES_TEXT, cleanup, stream, ncalls, load, lastEnq, ver, qver>>

\* threading.Timer(2.0, lambda: ACTIVE_BY_IP.discard(key))
timer_fire(ip) ==
  /\ UNCHANGED <<lastDl, warned>>
  /\ timers[ip] > 0
  /\ timers' = [timers EXCEPT ![ip] = @ - 1]
  /\ ACTIVE_BY_IP' = ACTIVE_BY_IP \ {ip}
  /\ UNCHANGED <<JOBS, PROGRESS_QUEUES, COOKIES_TEXT, req, wk,
                 disk, cleanup, stream, ncalls, load, lastEnq, ver, qver>>

\* ---- the worker thread of job j (start.worker, lines 136-193)

\* lines 137-169.  Line 137, outside the try, reads request.remote_addr from
\* the worker thread: the proxy resolves only if the thread sees the request
\* context, which depends on the runtime (ctx); otherwise the read raises and
\* the thread ends there, with nothing caught and nothing released.  When it
\* resolves: the options, the cookie file, job_update(status='downloading').
worker_enter(j, ctx) ==
  /\ UNCHANGED <<lastDl, warned>>
  /\ wk[j].pc = "spawned"
  /\ IF ctx
     THEN /\ wk' = [wk EXCEPT ![j].pc = "extracting", ![j].ip_key = JOBS[j].ip]
          /\ disk' = IF COOKIES_TEXT
                     THEN [disk EXCEPT ![j].files = @ \cup {"cookies.txt"}]
                     ELSE disk
          /\ job_update(j, [status |-> "downloading"])
     ELSE /\ wk' = [wk EXCEPT ![j].pc = "crashed"]
          /\ UNCHANGED <<JOBS, PROGRESS_QUEUES, lastEnq, ver, qver, disk>>
  /\ UNCHANGED <<ACTIVE_BY_IP, COOKIES_TEXT, req, timers, cleanup, stream, ncalls, load>>

\* progress_hook_factory(job_id).hook(d), lines 83-95
\* line 86: d.get('total_bytes') or d.get('total_bytes_estimate') or 0
HookTotal(d) == IF d.total_bytes # 0 THEN d.total_bytes ELSE d.total_bytes_estimate

HookFields(d) ==
  IF d.status = "downloading"
  THEN [status |-> "downloading",
        progress |-> [percent |-> Percent(d.downloaded_bytes, HookTotal(d))]]
  ELSE [status |-> "postprocessing", progress |-> [text |-> "Merging/processing..."]]

HookInputs ==
  [status : HookStatuses, total_bytes : {0, MaxBytes},
   total_bytes_estimate : {0, MaxBytes}, downloaded_bytes : 0..MaxBytes]

\* the hook as it would be if it read the job id from a variable shared by
\* all requests rather than from its own closure: it updates the job created
\* last
hook_shared_job_id(j, d) ==
  /\ UNCHANGED warned
  /\ lastDl' = IF d.status = "downloading"
               THEN [lastDl EXCEPT ![j] =
                       [downloaded |-> d.downloaded_bytes, total |-> HookTotal(d),
                        percent |-> HookFields(d).progress.percent]]
               ELSE lastDl
  /\ wk[j].pc = "extracting"
  /\ ncalls < MaxHooks
  /\ ncalls' = ncalls + 1
  /\ IF d.status \in {"downloading", "finished"}
     THEN job_update(CHOOSE k \in DOMAIN JOBS : \A k2 \in DOMAIN JOBS : k2 <= k,
                     HookFields(d))
     ELSE UNCHANGED <<JOBS, PROGRESS_QUEUES, lastEnq, ver, qver>>
  /\ UNCHANGED <<ACTIVE_BY_IP, COOKIES_TEXT, req, timers, wk, disk, cleanup, stream, load>>

\* the extractor calls the hook from inside extract_info, on the worker thread
hook(j, d) ==
  /\ UNCHANGED warned
  /\ lastDl' = IF d.status = "downloading"
               THEN [lastDl EXCEPT ![j] =
                       [downloaded |-> d.downloaded_bytes, total |-> HookTotal(d),
                        percent |-> HookFields(d).progress.percent]]
               ELSE lastDl
  /\ wk[j].pc = "extracting"
  /\ ncalls < MaxHooks
  /\ ncalls' = ncalls + 1
  /\ IF d.status \in {"downloading", "finished"}
     THEN job_update(j, HookFields(d))
     ELSE UNCHANGED <<JOBS, PROGRESS_QUEUES, lastEnq, ver, qver>>
  /\ UNCHANGED <<ACTIVE_BY_IP, COOKIES_TEXT, req, timers, wk, disk, cleanup, stream, load>>

\* line 180 without the filename keyword
DoneFields_status_only(pick) == [status |-> "done"]

\* line 180: the fields of the success update
DoneFields(pick) == [status |-> "done", filename |-> pick]

\* line 189: the fields of the failure update, error=str(e)
ErrorFields(msg) == [status |-> "error", error |-> msg]

\* lines 172-186 without the exists test of lines 178-179
extract_return_no_exists_test(j, produced, pick) ==
  /\ UNCHANGED warned
  /\ lastDl' = [lastDl EXCEPT ![j] = NoCallback]
  /\ wk[j].pc = "extracting"
  /\ LET files == disk[j].files \cup (IF produced THEN {"media"} ELSE {})
     IN /\ disk' = [disk EXCEPT ![j].files = files]
        /\ IF files = {} THEN pick = "media" ELSE pick \in files
        /\ job_update(j, DoneFields(pick))
        /\ cleanup' = [cleanup EXCEPT ![j] = "sleeping"]
        /\ wk' = [wk EXCEPT ![j].pc = "finally"]
  /\ UNCHANGED <<ACTIVE_BY_IP, COOKIES_TEXT, req, timers, stream, ncalls, load>>

\* lines 172-186: extract_info returns; the largest file of the workdir is
\* chosen (pick: the sizes are the extractor's), or prepare_filename's path
\* when the workdir is empty, which then does not exist and raises into
\* line 189.  On success the delayed_cleanup thread is started.
extract_return(j, produced, pick) ==
  /\ UNCHANGED warned
  /\ lastDl' = [lastDl EXCEPT ![j] = NoCallback]
  /\ wk[j].pc = "extracting"
  /\ LET files == disk[j].files \cup (IF produced THEN {"media"} ELSE {})
     IN /\ disk' = [disk EXCEPT ![j].files = files]
        /\ IF files = {}
           THEN /\ job_update(j, ErrorFields("File not found after download"))
                /\ wk' = [wk EXCEPT ![j].pc = "remove"]
                /\ UNCHANGED cleanup
           ELSE /\ pick \in files
                /\ job_update(j, DoneFields(pick))
                /\ cleanup' = [cleanup EXCEPT ![j] = "sleeping"]
                /\ wk' = [wk EXCEPT ![j].pc = "finally"]
  /\ UNCHANGED <<ACTIVE_BY_IP, COOKIES_TEXT, req, timers, stream, ncalls, load>>

\* extract_info raises (DownloadError and the like) and line 189 records it
extract_raise(j) ==
  /\ UNCHANGED warned
  /\ lastDl' = [lastDl EXCEPT ![j] = NoCallback]
  /\ wk[j].pc = "extracting"
  /\ job_update(j, ErrorFields("DownloadError"))
  /\ wk' = [wk EXCEPT ![j].pc = "remove"]
  /\ UNCHANGED <<ACTIVE_BY_IP, COOKIES_TEXT, req, timers, disk, cleanup, stream, ncalls, load>>

\* the except clause without the safe_remove call of line 190
worker_remove_skipped(j, fails) ==
  /\ UNCHANGED <<lastDl, warned>>
  /\ wk[j].pc = "remove"
  /\ wk' = [wk EXCEPT ![j].pc = "finally"]
  /\ UNCHANGED <<JOBS, PROGRESS_QUEUES, ACTIVE_BY_IP, COOKIES_TEXT, req, timers,
                 disk, cleanup, stream, ncalls, load, lastEnq, ver, qver>>

\* line 190
worker_remove(j, fails) ==
  /\ UNCHANGED lastDl
  /\ warned' = Warned(j, fails)
  /\ wk[j].pc = "remove"
  /\ disk' = safe_remove(j, fails)
  /\ wk' = [wk EXCEPT ![j].pc = "finally"]
  /\ UNCHANGED <<JOBS, PROGRESS_QUEUES, ACTIVE_BY_IP, COOKIES_TEXT, req, timers,
                 cleanup, stream, ncalls, load, lastEnq, ver, qver>>

\* lines 191-193 as they would be if the handler of line 188 also ran after
\* the success update
worker_finally_after_except(j) ==
  /\ UNCHANGED <<lastDl, warned>>
  /\ wk[j].pc = "finally"
  /\ ACTIVE_BY_IP' = ACTIVE_BY_IP \ {wk[j].ip_key}
  /\ job_update(j, ErrorFields("RuntimeError"))
  /\ wk' = [wk EXCEPT ![j].pc = "exit"]
  /\ UNCHANGED <<COOKIES_TEXT, req, timers, disk, cleanup, stream, ncalls, load>>

\* lines 191-193
worker_finally(j) ==
  /\ UNCHANGED <<lastDl, warned>>
  /\ wk[j].pc = "finally"
  /\ ACTIVE_BY_IP' = ACTIVE_BY_IP \ {wk[j].ip_key}
  /\ wk' = [wk EXCEPT ![j].pc = "exit"]
  /\ UNCHANGED <<JOBS, PROGRESS_QUEUES, COOKIES_TEXT, req, timers,
                 disk, cleanup, stream, ncalls, load, lastEnq, ver, qver>>

\* delayed_cleanup(workdir), lines 183-185, after its sleep
delayed_cleanup(j, fails) ==
  /\ UNCHANGED lastDl
  /\ warned' = Warned(j, fails)
  /\ cleanup[j] = "sleeping"
  /\ disk' = safe_remove(j, fails)
  /\ cleanup' = [cleanup EXCEPT ![j] = "ran"]
  /\ UNCHANGED <<JOBS, PROGRESS_QUEUES, ACTIVE_BY_IP, COOKIES_TEXT, req, timers,
                 wk, stream, ncalls, load, lastEnq, ver, qver>>

\* ---- GET /progress/<job_id>

\* progress_stream, lines 199-209: 404 for an unknown job; else the job's
\* queue (made if missing) and the generator's first yield, the current
\* record.  first keeps the status that yield carried.
progress_stream(s, job_id) ==
  /\ UNCHANGED <<lastDl, warned>>
  /\ stream[s].pc = "idle"
  /\ s <= load.streams
  /\ \A s2 \in StreamIds : s2 < s => stream[s2].pc # "idle"
  /\ IF job_id \notin DOMAIN JOBS
     THEN UNCHANGED <<PROGRESS_QUEUES, stream>>
     ELSE /\ PROGRESS_QUEUES' =
               IF job_id \in DOMAIN PROGRESS_QUEUES THEN PROGRESS_QUEUES
               ELSE (job_id :> <<>>) @@ PROGRESS_QUEUES
          /\ stream' = [stream EXCEPT ![s] =
               [pc |-> "wait", job |-> job_id, first |-> JOBS[job_id].status,
                last |-> ver[job_id]]]
  /\ UNCHANGED <<JOBS, ACTIVE_BY_IP, COOKIES_TEXT, req, timers, wk,
                 disk, cleanup, ncalls, load, lastEnq, ver, qver>>

\* event_stream, lines 212-215: q.get returns the oldest event, which is
\* yielded; the generator ends after an event whose status is done or error
event_stream_get(s) ==
  /\ UNCHANGED <<lastDl, warned>>
  /\ stream[s].pc = "wait"
  /\ PROGRESS_QUEUES[stream[s].job] # <<>>
  /\ LET update == Head(PROGRESS_QUEUES[stream[s].job])
     IN stream' = [stream EXCEPT
                     ![s].pc = IF update.status \in Terminal THEN "closed" ELSE "wait",
                     ![s].last = Head(qver[stream[s].job])]
  /\ PROGRESS_QUEUES' = [PROGRESS_QUEUES EXCEPT ![stream[s].job] = Tail(@)]
  /\ qver' = [qver EXCEPT ![stream[s].job] = Tail(@)]
  /\ UNCHANGED <<JOBS, ACTIVE_BY_IP, COOKIES_TEXT, req, timers, wk,
                 disk, cleanup, ncalls, load, lastEnq, ver>>

\* lines 216-218 with a break in place of the keep-alive
event_stream_timeout_break(s) ==
  /\ stream[s].pc = "wait"
  /\ PROGRESS_QUEUES[stream[s].job] = <<>>
  /\ stream' = [stream EXCEPT ![s].pc = "closed"]
  /\ UNCHANGED <<JOBS, PROGRESS_QUEUES, ACTIVE_BY_IP, COOKIES_TEXT, req, timers,
                 wk, disk, cleanup, ncalls, load, lastEnq, ver, qver, lastDl,
                 warned>>

\* event_stream, lines 216-218: queue.Empty after the timeout; a keep-alive
\* is yielded and the loop goes on
event_stream_timeout(s) ==
  /\ stream[s].pc = "wait"
  /\ PROGRESS_QUEUES[stream[s].job] = <<>>
  /\ UNCHANGED vars

\* ---- GET /file/<job_id>

\* get_file without the os.path.exists test of line 241
FileResponseIn_no_exists(jobs, storage, job_id) ==
  IF job_id \notin DOMAIN jobs THEN 404
  ELSE IF jobs[job_id].status # "done" THEN 404
  ELSE 200

\* get_file, lines 236-243: the response code
FileResponseIn(jobs, storage, job_id) ==
  IF job_id \notin DOMAIN jobs THEN 404
  ELSE IF jobs[job_id].status # "done" THEN 404
  ELSE IF ~(storage[job_id].exists /\ jobs[job_id].filename \in storage[job_id].files)
       THEN 404
  ELSE 200

FileResponse(job_id) == FileResponseIn(JOBS, disk, job_id)

\* the handler reads and changes nothing
get_file(job_id) ==
  /\ FileResponse(job_id) \in {200, 404}
  /\ UNCHANGED vars

\* ---- the claims

NonTerminalJobs == {j \in DOMAIN JOBS : JOBS[j].status \in NonTerminal}

\* C1: for every identity at most one job it submitted is non-terminal.
C1_OneJobPerIdentity ==
  \A ip \in Ips : Cardinality({j \in NonTerminalJobs : JOBS[j].ip = ip}) <= 1

\* C2: the number of admitted, non-terminal jobs never exceeds a global
\* maximum N, for an N below the number of submissions.
C2_GlobalMaximum ==
  \E N \in 1..(MaxReq - 1) : Cardinality(NonTerminalJobs) <= N

AllowedEdges ==
  {<<"queued", "downloading">>, <<"downloading", "downloading">>,
   <<"downloading", "postprocessing">>, <<"downloading", "done">>,
   <<"postprocessing", "done">>}
  \cup {<<st, "error">> : st \in NonTerminal}

\* C3: every change of a job's status is an edge of the state machine; in
\* particular never postprocessing -> downloading.
C3_StatusEdges ==
  [][\A j \in DOMAIN JOBS :
       JOBS'[j].status # JOBS[j].status
         => <<JOBS[j].status, JOBS'[j].status>> \in AllowedEdges]_vars

ArtifactAndErrorMatchStatus(job) ==
  /\ job.filename # None <=> job.status = "done"
  /\ job.error # None <=> job.status = "error"

HasTerminalEvent(q) == \E i \in 1..Len(q) : q[i].status \in Terminal

\* C6: a stream opened before its job was terminal gets a terminal event and
\* ends.  Once the worker has left nothing more is published, so such a
\* stream, while it waits, must still have a terminal event ahead of it;
\* stated for the jobs whose terminal event did get onto the queue.
C6_EarlyStreamGetsTerminal ==
  \A s \in StreamIds :
    (/\ stream[s].pc = "wait"
     /\ stream[s].first \in NonTerminal
     /\ wk[stream[s].job].pc = "exit"
     /\ lastEnq[stream[s].job] \in Terminal)
      => HasTerminalEvent(PROGRESS_QUEUES[stream[s].job])

\* C7: a stream opened on a job that is already done or error ends after its
\* first yield: it is never left waiting on the job's queue once that queue
\* holds nothing for it; stated for the jobs whose terminal event did get
\* onto the queue (and was taken by an earlier stream).
C7_LateStreamEnds ==
  \A s \in StreamIds :
    ~(/\ stream[s].pc = "wait"
      /\ stream[s].first \in Terminal
      /\ lastEnq[stream[s].job] \in Terminal
      /\ PROGRESS_QUEUES[stream[s].job] = <<>>)

\* C8: the step that answers 400 creates no job and no queue, and the
\* identity is not in the active set when the answer is given.
C8_EmptyUrlAcquiresNothing ==
  [][\A r \in JobIds :
       (req[r].code # 400 /\ req'[r].code = 400)
         => /\ JOBS' = JOBS
            /\ PROGRESS_QUEUES' = PROGRESS_QUEUES
            /\ req[r].ip \notin ACTIVE_BY_IP']_vars

\* C9: while a job is non-terminal its identity is in the active set.
C9_HeldUntilTerminal ==
  \A j \in NonTerminalJobs : JOBS[j].ip \in ACTIVE_BY_IP

\* C10: when the worker of a job whose extractor raised leaves, the message
\* is recorded, the last event put on the job's queue has status error, the
\* identity is out of the active set and /file answers 404.
C10_FailureIsPublished ==
  [][\A j \in DOMAIN JOBS :
       (wk[j].pc # "exit" /\ wk'[j].pc = "exit" /\ JOBS[j].error = "DownloadError")
         => /\ JOBS'[j].error # None
            /\ lastEnq'[j] = "error"
            /\ JOBS[j].ip \notin ACTIVE_BY_IP'
            /\ FileResponseIn(JOBS', disk', j) = 404]_vars

\* C11: /file answers with the artifact for a done job in every state from
\* the terminal update until the delayed cleanup fires, with 404 in every
\* state where the workdir has been removed, and with 404 for every job
\* that is not done.
C11_FileWindow ==
  \A j \in DOMAIN JOBS :
    /\ (JOBS[j].status = "done" /\ cleanup[j] = "sleeping") => FileResponse(j) = 200
    /\ ~disk[j].exists => FileResponse(j) = 404
    /\ JOBS[j].status # "done" => FileResponse(j) = 404

\* a done job whose delayed cleanup has removed the workdir
C11_Witness ==
  \E j \in DOMAIN JOBS :
    JOBS[j].status = "done" /\ cleanup[j] = "ran" /\ ~disk[j].exists

\* C12: a publish onto a full queue drops the oldest event and enqueues the
\* new one, so after every publish the event just published is the newest
\* element of the job's queue.
C12_NewestEventIsQueued ==
  [][\A j \in DOMAIN JOBS :
       ver'[j] # ver[j]
         => /\ PROGRESS_QUEUES'[j] # <<>>
            /\ PROGRESS_QUEUES'[j][Len(PROGRESS_QUEUES'[j])] = JOBS'[j]]_vars

\* C13: the states a stream yields, its initial state included, come in
\* publish order: a stream never yields a state older than one it has
\* already yielded.  last is the publish number of the state last yielded.
C13_StreamOrder ==
  [][\A s \in StreamIds :
       stream[s].pc = "wait" => stream'[s].last >= stream[s].last]_vars

\* the step is a 'downloading' callback of job j's hook
DownloadingCallback(j) ==
  /\ ncalls' = ncalls + 1
  /\ ver'[j] = ver[j] + 1
  /\ JOBS'[j].status = "downloading"

\* C14: over the 'downloading' callbacks of one job, when downloaded_bytes
\* does not decrease from one callback to the next, the percent recorded
\* does not decrease either.
C14_PercentMonotone ==
  [][\A j \in DOMAIN JOBS :
       (DownloadingCallback(j) /\ lastDl'[j].downloaded >= lastDl[j].downloaded)
         => JOBS'[j].progress.percent >= lastDl[j].percent]_vars

\* C15: a /start answered with 429 leaves the job table, the queues and the
\* active set as they were, starts no worker and arms no fallback timer.
C15_RejectionChangesNothing ==
  [][\A r \in JobIds :
       (req[r].code # 429 /\ req'[r].code = 429)
         => UNCHANGED <<JOBS, PROGRESS_QUEUES, ACTIVE_BY_IP, wk, timers,
                        disk, cleanup>>]_vars

\* the second request was rejected while the first one's job was running
C15_Witness ==
  /\ req[2].code = 429
  /\ 1 \in DOMAIN JOBS /\ JOBS[1].status \in NonTerminal
  /\ wk[2].pc = "none"

\* C16: a job's status becomes done only if the chosen file exists at the
\* update; when the extractor's call ends and the workdir holds no file, the
\* job ends in error with a message, not in done.
C16_DoneOnlyWithFile ==
  [][\A j \in DOMAIN JOBS :
       /\ (JOBS[j].status # "done" /\ JOBS'[j].status = "done")
            => (disk'[j].exists /\ JOBS'[j].filename \in disk'[j].files)
       /\ (wk[j].pc = "extracting" /\ wk'[j].pc # "extracting"
              /\ disk'[j].files = {})
            => (JOBS'[j].status = "error" /\ JOBS'[j].error # None)]_vars

\* one job is done with its file, another ended in error because the
\* extractor returned and left no file
C16_Witness ==
  \E j1, j2 \in DOMAIN JOBS :
    /\ JOBS[j1].status = "done" /\ JOBS[j1].filename \in disk[j1].files
    /\ JOBS[j2].status = "error"
    /\ JOBS[j2].error = "File not found after download"

\* C17: a stream does not end because of silence: the only step that ends
\* one is the step that takes an event with status done or error from the
\* job's queue.
C17_StreamEndsOnlyOnTerminalEvent ==
  [][\A s \in StreamIds :
       (stream[s].pc = "wait" /\ stream'[s].pc # "wait")
         => LET q == PROGRESS_QUEUES[stream[s].job]
            IN /\ q # <<>>
               /\ Head(q).status \in Terminal
               /\ PROGRESS_QUEUES'[stream[s].job] = Tail(q)
               /\ stream'[s].pc = "closed"]_vars

\* a stream has ended while another on the same job, which met only an
\* empty queue since, is still open
C17_Witness ==
  \E s1, s2 \in StreamIds :
    /\ stream[s1].pc = "closed" /\ stream[s2].pc = "wait"
    /\ stream[s1].job = stream[s2].job
    /\ PROGRESS_QUEUES[stream[s2].job] = <<>>
    /\ JOBS[stream[s2].job].status \in Terminal

\* C18 as claimed: the workdir of a non-terminal job exists, and once the job
\* is done or in error its workdir is eventually removed.
C18_WorkdirEventuallyRemoved ==
  /\ [](\A j \in NonTerminalJobs : disk[j].exists)
  /\ \A j \in JobIds :
       (j \in DOMAIN JOBS /\ JOBS[j].status \in Terminal) ~> ~disk[j].exists

\* C18, amended: the workdir of a non-terminal job exists, and once the job
\* is done or in error its workdir is eventually removed, or the removal
\* has failed and the failure has been logged (it is not retried).
C18_WorkdirRemovedOrFailureLogged ==
  /\ [](\A j \in NonTerminalJobs : disk[j].exists)
  /\ \A j \in JobIds :
       (j \in DOMAIN JOBS /\ JOBS[j].status \in Terminal)
         ~> (~disk[j].exists \/ j \in warned)

\* a failed job whose workdir the worker removed, and a done job whose
\* delayed cleanup ran and could not remove the workdir
C18_Witness ==
  \E j1, j2 \in DOMAIN JOBS :
    /\ JOBS[j1].status = "error" /\ ~disk[j1].exists
    /\ JOBS[j2].status = "done" /\ cleanup[j2] = "ran" /\ j2 \in warned

\* C19: an identity placed in the active set by an admitted /start, whether
\* the request ends in 400 or in a job, is eventually out of the set, even if
\* the worker never releases it.
C19_IdentityEventuallyReleased ==
  \A ip \in Ips : (ip \in ACTIVE_BY_IP) ~> (ip \notin ACTIVE_BY_IP)

\* the worker of a job died before its release, every timer of the job's
\* identity has fired and the identity is out of the set
C19_Witness ==
  \E j \in DOMAIN JOBS :
    /\ wk[j].pc = "crashed"
    /\ timers[JOBS[j].ip] = 0
    /\ JOBS[j].ip \notin ACTIVE_BY_IP

\* C20: an update made by the worker or the hook of job j changes the
\* record of j only and enqueues on the queue of j only, and no request
\* handler changes the record of a job that exists.
C20_SingleWriter ==
  [][\A j \in DOMAIN JOBS :
       /\ ver'[j] # ver[j]
            => /\ wk[j].pc \in {"spawned", "extracting"}
               /\ \A k \in DOMAIN JOBS \ {j} :
                    /\ JOBS'[k] = JOBS[k]
                    /\ PROGRESS_QUEUES'[k] = PROGRESS_QUEUES[k]
       /\ (JOBS'[j] # JOBS[j] \/ Len(PROGRESS_QUEUES'[j]) > Len(PROGRESS_QUEUES[j]))
            => ver'[j] # ver[j]
       /\ (req' # req \/ stream' # stream) => JOBS'[j] = JOBS[j]]_vars

\* two jobs, each updated by its own worker, stand at different statuses
\* while a later request has been answered
C20_Witness ==
  \E j1, j2 \in DOMAIN JOBS :
    /\ JOBS[j1].status = "done" /\ JOBS[j2].status = "postprocessing"
    /\ ver[j1] > 1 /\ ver[j2] > 1
    /\ req[j2].pc = "responded"

Next ==
  \/ \E r \in JobIds, ip \in Ips, url \in Urls : wrapper_check(r, ip, url)
  \/ \E r \in JobIds : wrapper_add(r)
  \/ \E r \in JobIds : start(r)
  \/ \E ip \in Ips : timer_fire(ip)
  \/ \E j \in JobIds, ctx \in BOOLEAN : worker_enter(j, ctx)
  \/ \E j \in JobIds, d \in HookInputs : hook(j, d)
  \/ \E j \in JobIds, produced \in BOOLEAN, pick \in FileNames : extract_return(j, produced, pick)
  \/ \E j \in JobIds : extract_raise(j)
  \/ \E j \in JobIds, fails \in BOOLEAN : worker_remove(j, fails)
  \/ \E j \in JobIds : worker_finally(j)
  \/ \E j \in JobIds, fails \in BOOLEAN : delayed_cleanup(j, fails)
  \/ \E s \in StreamIds, j \in JobIds : progress_stream(s, j)
  \/ \E s \in StreamIds : event_stream_get(s)
  \/ \E s \in StreamIds : event_stream_timeout(s)
  \/ \E j \in JobIds : get_file(j)

Spec == Init /\ [][Next]_vars

\* Scheduling: a request handler that has passed the membership test runs to
\* its return, an armed timer fires, a worker past extract_info runs to its
\* end and a started delayed_cleanup thread wakes up.  Nothing is assumed of
\* the extractor, of clients or of stream consumers.
Fairness ==
  /\ \A r \in JobIds : WF_vars(wrapper_add(r)) /\ WF_vars(start(r))
  /\ \A ip \in Ips : WF_vars(timer_fire(ip))
  /\ \A j \in JobIds :
       /\ WF_vars(\E fails \in BOOLEAN : worker_remove(j, fails))
       /\ WF_vars(worker_finally(j))
       /\ WF_vars(\E fails \in BOOLEAN : delayed_cleanup(j, fails))

FairSpec == Spec /\ Fairness
====
